---- MODULE Spec2Model ----
(***************************************************************************)
(* zpool-summary: a one line summary of the ZFS storage pools.             *)
(*                                                                         *)
(* The program reads two texts (the output of `zfs get` and of `zpool      *)
(* status`), parses each into a map and prints one line.  Texts are        *)
(* sequences of one-character strings; a usize is a 64-bit unsigned        *)
(* number kept as four 16-bit limbs, least significant first, so that the  *)
(* byte counts of real pools and the wrap-around of usize arithmetic are   *)
(* both exact.                                                             *)
(***************************************************************************)
EXTENDS Integers, Sequences, FiniteSets, TLC

----------------------------------------------------------------------------
(* usize arithmetic                                                        *)

\* One limb holds 16 bits.
LimbBase == 65536

\* A usize has four limbs (64 bits); the claims' arithmetic is done in six.
UsizeLimbs == 4
WideLimbs == UsizeLimbs + 2

Zero(n) == [i \in 1..n |-> 0]

\* The usize 0: the default value of pool_meta's fields and of value_or_default().
UsizeZero == Zero(UsizeLimbs)

RECURSIVE AddFrom(_, _, _, _)
AddFrom(x, y, i, c) ==
    IF i > Len(x) THEN <<>>
    ELSE LET s == x[i] + y[i] + c
         IN  <<s % LimbBase>> \o AddFrom(x, y, i + 1, s \div LimbBase)

\* x + y of two numbers of the same width, wrapping at that width.
Add(x, y) == AddFrom(x, y, 1, 0)

RECURSIVE MulFrom(_, _, _, _)
MulFrom(x, m, i, c) ==
    IF i > Len(x) THEN <<>>
    ELSE LET s == x[i] * m + c
         IN  <<s % LimbBase>> \o MulFrom(x, m, i + 1, s \div LimbBase)

\* x * m + a for small m and a, wrapping at the width of x.
MulAdd(x, m, a) == MulFrom(x, m, 1, a)

RECURSIVE DivFrom(_, _, _, _)
DivFrom(x, d, i, r) ==
    IF i = 0 THEN <<>>
    ELSE LET cur == r * LimbBase + x[i]
         IN  DivFrom(x, d, i - 1, cur % d) \o <<cur \div d>>

\* x / d, integer division by a small divisor.
Div(x, d) == DivFrom(x, d, Len(x), 0)

RECURSIVE LessFrom(_, _, _)
LessFrom(x, y, i) ==
    IF i = 0 THEN FALSE
    ELSE IF x[i] # y[i] THEN x[i] < y[i]
    ELSE LessFrom(x, y, i - 1)

\* x < y of two numbers of the same width.
Less(x, y) == LessFrom(x, y, Len(x))

\* x widened (or cut) to n limbs.
Widen(x, n) == [i \in 1..n |-> IF i <= Len(x) THEN x[i] ELSE 0]

----------------------------------------------------------------------------
(* characters and strings                                                  *)

Digits == <<"0", "1", "2", "3", "4", "5", "6", "7", "8", "9">>

Lower == {"a", "b", "c", "d", "e", "f", "g", "h", "i", "j", "k", "l", "m",
          "n", "o", "p", "q", "r", "s", "t", "u", "v", "w", "x", "y", "z"}

Upper == {"A", "B", "C", "D", "E", "F", "G", "H", "I", "J", "K", "L", "M",
          "N", "O", "P", "Q", "R", "S", "T", "U", "V", "W", "X", "Y", "Z"}

is_digit(c) == \E i \in 1..10 : Digits[i] = c

is_alpha(c) == c \in Lower \/ c \in Upper

is_alphanumeric(c) == is_alpha(c) \/ is_digit(c)

DigitValue(c) == (CHOOSE i \in 1..10 : Digits[i] = c) - 1

\* The characters of the texts in byte order (a str compares bytewise).
ByteOrder == <<"\t", "\n", " ", "(", ")", "-", ".", "/",
               "0", "1", "2", "3", "4", "5", "6", "7", "8", "9", ":",
               "A", "B", "C", "D", "E", "F", "G", "H", "I", "J", "K", "L", "M",
               "N", "O", "P", "Q", "R", "S", "T", "U", "V", "W", "X", "Y", "Z",
               "_",
               "a", "b", "c", "d", "e", "f", "g", "h", "i", "j", "k", "l", "m",
               "n", "o", "p", "q", "r", "s", "t", "u", "v", "w", "x", "y", "z">>

Byte(c) == CHOOSE i \in 1..Len(ByteOrder) : ByteOrder[i] = c

RECURSIVE StrLessFrom(_, _, _)
StrLessFrom(a, b, i) ==
    IF i > Len(b) THEN FALSE
    ELSE IF i > Len(a) THEN TRUE
    ELSE IF a[i] # b[i] THEN Byte(a[i]) < Byte(b[i])
    ELSE StrLessFrom(a, b, i + 1)

\* a < b, the order of the keys of map::sorted<str, ...>.
StrLess(a, b) == StrLessFrom(a, b, 1)

has_front(s, p) == Len(s) >= Len(p) /\ SubSeq(s, 1, Len(p)) = p

has_back(s, p) == Len(s) >= Len(p) /\ SubSeq(s, Len(s) - Len(p) + 1, Len(s)) = p

\* The pieces of s[lo..hi] between the delimiters, found by halving the range: the
\* last piece of the left half and the first of the right half are one piece.
RECURSIVE SplitRange(_, _, _, _)
SplitRange(s, d, lo, hi) ==
    IF lo > hi THEN <<(<<>>)>>
    ELSE IF lo = hi THEN (IF s[lo] = d THEN <<(<<>>), (<<>>)>> ELSE <<(<<s[lo]>>)>>)
    ELSE LET mid   == (lo + hi) \div 2
             left  == SplitRange(s, d, lo, mid)
             right == SplitRange(s, d, mid + 1, hi)
         IN  SubSeq(left, 1, Len(left) - 1)
                 \o <<left[Len(left)] \o right[1]>>
                 \o SubSeq(right, 2, Len(right))

\* string::range::split{s, d}: the pieces of s between the delimiters, one more
\* than there are delimiters (a text ending in d has a last, empty piece).
split(s, d) == SplitRange(s, d, 1, Len(s))

RECURSIVE ToUsizeFrom(_, _, _)
ToUsizeFrom(s, i, acc) ==
    IF i > Len(s) THEN [has_value |-> TRUE, value |-> Widen(acc, UsizeLimbs)]
    ELSE IF ~is_digit(s[i]) THEN [has_value |-> FALSE, value |-> UsizeZero]
    ELSE LET next == MulAdd(acc, 10, DigitValue(s[i]))
         IN  IF next[UsizeLimbs + 1] # 0
             THEN [has_value |-> FALSE, value |-> UsizeZero]
             ELSE ToUsizeFrom(s, i + 1, next)

\* s.to<usize>(): the decimal number s, with no value when s is empty, holds
\* another character than a digit or does not fit in 64 bits.
to_usize(s) ==
    IF Len(s) = 0 THEN [has_value |-> FALSE, value |-> UsizeZero]
    ELSE ToUsizeFrom(s, 1, Zero(UsizeLimbs + 1))

\* optional<usize>::value_or_default()
value_or_default(opt) == IF opt.has_value THEN opt.value ELSE UsizeZero

\* "..." as a text: the characters of the string literals of the source.
S_available == <<"a", "v", "a", "i", "l", "a", "b", "l", "e">>
S_used == <<"u", "s", "e", "d">>
S_pool == <<"p", "o", "o", "l", ":", " ">>
S_name_state == <<"N", "A", "M", "E", " ", "S", "T", "A", "T", "E">>
S_online == <<"O", "N", "L", "I", "N", "E", " ", "0", " ", "0", " ", "0">>
S_unknown == <<"U", "n", "k", "n", "o", "w", "n", "\n">>
S_colon == <<":", " ">>
S_errors == <<" ", "(", "E", "R", "R", "O", "R", "S", ")">>
S_low == <<" ", "(", "l", "o", "w", ")">>

----------------------------------------------------------------------------
(* the maps                                                                *)

\* map::sorted<str, pool_meta>: the entries in ascending order of key.
RECURSIVE SortedFind(_, _, _)
SortedFind(m, key, i) ==
    IF i > Len(m) THEN 0
    ELSE IF m[i].key = key THEN i
    ELSE SortedFind(m, key, i + 1)

RECURSIVE SortedPlace(_, _, _)
SortedPlace(m, key, i) ==
    IF i > Len(m) THEN i
    ELSE IF StrLess(key, m[i].key) THEN i
    ELSE SortedPlace(m, key, i + 1)

\* pools.insert(key, value): adds the entry at its place unless the key is there;
\* gives the map and the index of the (new or old) entry.
sorted_insert(m, key, value) ==
    LET at == SortedFind(m, key, 1)
    IN  IF at # 0 THEN [map |-> m, at |-> at]
        ELSE LET i == SortedPlace(m, key, 1)
             IN  [map |-> SubSeq(m, 1, i - 1) \o <<[key |-> key, value |-> value]>>
                              \o SubSeq(m, i, Len(m)),
                  at |-> i]

\* map::unsorted<str, bool> is a function from its keys.
EmptyStatuses == [k \in {} |-> FALSE]

\* statuses.insert(key, value): adds the entry unless the key is there.
unsorted_insert(m, key, value) ==
    IF key \in DOMAIN m THEN m
    ELSE [k \in DOMAIN m \cup {key} |-> IF k = key THEN value ELSE m[k]]

----------------------------------------------------------------------------
(* parse_list                                                              *)

RECURSIVE PopFrontWhile(_, _)
PopFrontWhile(rng, i) ==
    IF i <= Len(rng) /\ (is_alphanumeric(rng[i]) \/ rng[i] \in {"_", "-", ":", " ", "."})
    THEN PopFrontWhile(rng, i + 1)
    ELSE i

\* A rule that forgets the first character must be a letter.
is_valid_pool_name_any_first(name) ==
    Len(name) > 0 /\ PopFrontWhile(name, 1) > Len(name)

is_valid_pool_name(name) ==
    IF Len(name) > 0 /\ is_alpha(name[1])
    THEN PopFrontWhile(name, 2) > Len(name)
    ELSE FALSE

\* pool_meta{}
pool_meta == [avail |-> UsizeZero, used |-> UsizeZero]

\* One pass of the loop body over a non-empty line: the map with the line's value
\* stored, or no map (ok = FALSE) where the code returns {}.
parse_list_line(pools, line) ==
    LET columns  == split(line, "\t")
        name     == columns[1]
        property == IF Len(columns) >= 2 THEN columns[2] ELSE <<>>
        value    == IF Len(columns) >= 3
                    THEN value_or_default(to_usize(columns[3]))
                    ELSE UsizeZero
        fail     == [ok |-> FALSE, pools |-> <<>>]
    IN  IF Len(columns) < 3 THEN fail
        ELSE IF Len(columns) > 3 THEN fail
        ELSE IF name = <<>> \/ property = <<>> \/ value = UsizeZero THEN fail
        ELSE IF ~is_valid_pool_name(name) THEN fail
        ELSE LET ins == sorted_insert(pools, name, pool_meta)
             IN  IF property = S_available
                 THEN [ok |-> TRUE,
                       pools |-> [ins.map EXCEPT ![ins.at].value.avail = value]]
                 ELSE IF property = S_used
                 THEN [ok |-> TRUE,
                       pools |-> [ins.map EXCEPT ![ins.at].value.used = value]]
                 ELSE fail

\* A parse that drops a malformed row and keeps the rows read so far.
RECURSIVE ParseListSkipping(_, _, _)
ParseListSkipping(lines, i, pools) ==
    IF i > Len(lines) THEN pools
    ELSE IF lines[i] = <<>> THEN ParseListSkipping(lines, i + 1, pools)
    ELSE LET r == parse_list_line(pools, lines[i])
         IN  ParseListSkipping(lines, i + 1, IF r.ok THEN r.pools ELSE pools)

RECURSIVE ParseListFrom(_, _, _)
ParseListFrom(lines, i, pools) ==
    IF i > Len(lines) THEN pools
    ELSE IF lines[i] = <<>> THEN ParseListFrom(lines, i + 1, pools)
    ELSE LET r == parse_list_line(pools, lines[i])
         IN  IF r.ok THEN ParseListFrom(lines, i + 1, r.pools) ELSE <<>>

parse_list(output) == ParseListFrom(split(output, "\n"), 1, <<>>)

----------------------------------------------------------------------------
(* parse_status                                                            *)

\* output.replace('\t', ' ')
replace_tabs(s) == [i \in 1..Len(s) |-> IF s[i] = "\t" THEN " " ELSE s[i]]

\* The remove_if predicate run over s[lo..hi] with its captured prev: the
\* characters kept and prev afterwards.  The range is halved, prev passing from the
\* left half to the right.
RECURSIVE RemoveIfRange(_, _, _, _)
RemoveIfRange(s, lo, hi, prev) ==
    IF lo > hi THEN [kept |-> <<>>, prev |-> prev]
    ELSE IF lo = hi
    THEN (IF s[lo] = " " /\ prev \in {" ", "\n"}
          THEN [kept |-> <<>>, prev |-> prev]
          ELSE [kept |-> <<s[lo]>>, prev |-> s[lo]])
    ELSE LET mid   == (lo + hi) \div 2
             left  == RemoveIfRange(s, lo, mid, prev)
             right == RemoveIfRange(s, mid + 1, hi, left.prev)
         IN  [kept |-> left.kept \o right.kept, prev |-> right.prev]

\* The remove_if call: drops the spaces that follow a space or a line break.
remove_indentation(s) == RemoveIfRange(s, 1, Len(s), "\n").kept

\* The inner loop: counts the device lines up to the blank line or the end.
RECURSIVE DeviceRows(_, _, _, _)
DeviceRows(lines, i, error_count, no_error_count) ==
    IF i > Len(lines)
    THEN [next |-> i, error_count |-> error_count, no_error_count |-> no_error_count]
    ELSE IF lines[i] = <<>>
    THEN [next |-> i + 1, error_count |-> error_count, no_error_count |-> no_error_count]
    ELSE IF has_back(lines[i], S_online)
    THEN DeviceRows(lines, i + 1, error_count, no_error_count + 1)
    ELSE DeviceRows(lines, i + 1, error_count + 1, no_error_count)

\* A test that takes a table with no device line for a healthy one.
block_has_errors_counted(error_count, no_error_count) == error_count > 0

\* const bool has_errors = error_count > 0 || no_error_count == 0;
block_has_errors(error_count, no_error_count) ==
    error_count > 0 \/ no_error_count = 0

RECURSIVE ParseStatusFrom(_, _, _, _)
ParseStatusFrom(lines, i, name, statuses) ==
    IF i > Len(lines) THEN statuses
    ELSE IF has_front(lines[i], S_pool)
    THEN ParseStatusFrom(lines, i + 1, SubSeq(lines[i], 7, Len(lines[i])), statuses)
    ELSE IF ~has_front(lines[i], S_name_state)
    THEN ParseStatusFrom(lines, i + 1, name, statuses)
    ELSE LET rows == DeviceRows(lines, i + 1, 0, 0)
             has_errors == block_has_errors(rows.error_count, rows.no_error_count)
         IN  ParseStatusFrom(lines, rows.next, <<>>,
                             IF name # <<>>
                             THEN unsorted_insert(statuses, name, has_errors)
                             ELSE statuses)

parse_status(output) ==
    ParseStatusFrom(split(remove_indentation(replace_tabs(output)), "\n"),
                    1, <<>>, EmptyStatuses)

----------------------------------------------------------------------------
(* main                                                                    *)

\* constant::size::terabyte<usize> and constant::size::gigabyte<usize>: 2^40 and 2^30.
terabyte == <<0, 0, 256, 0>>
gigabyte == <<0, 16384, 0, 0>>

\* A test that takes every map for one with pools.
has_pools_always(p) == TRUE

\* if (pools)
has_pools(p) == Len(p) > 0

\* The iteration in the order of the map, not reversed.
forward_at(p, n) == p[n]

\* pools.range() | range::v::reverse{}: the n-th entry of the iteration.
reverse_at(p, n) == p[Len(p) - n + 1]

\* A lookup that takes a pool with no status for a healthy one.
status_or_false(st, name) == IF name \in DOMAIN st THEN st[name] ELSE FALSE

\* statuses.get<bool>(name).value_or(true)
status_or_true(st, name) == IF name \in DOMAIN st THEN st[name] ELSE TRUE

\* const auto size = meta.avail + meta.used;
pool_size(meta) == Add(meta.avail, meta.used)

\* const usize divisor = (size >= constant::size::terabyte<usize>) ? 20 : 10;
pool_divisor(size) == IF ~Less(size, terabyte) THEN 20 ELSE 10

\* A test that counts a pool exactly at the threshold as low.
pool_is_low_or_equal(meta, size, divisor) == ~Less(Div(size, divisor), meta.avail)

\* const bool is_low = meta.avail < (size / divisor);
pool_is_low(meta, size, divisor) == Less(meta.avail, Div(size, divisor))

\* const bool is_bootpool = size < (5 * constant::size::gigabyte<usize>);
pool_is_bootpool(size) == Less(size, MulAdd(gigabyte, 5, 0))

\* A test that leaves every tiny pool out.
pool_is_listed_by_size(is_bootpool, has_errors, is_low) == ~is_bootpool

\* if (!is_bootpool || has_errors || is_low)
pool_is_listed(is_bootpool, has_errors, is_low) == ~is_bootpool \/ has_errors \/ is_low

\* fmt::byte_size<1024>(byte_size{avail}, iec_short, ".", ""): the library's short
\* form of the byte count, kept as one piece of text that names the count.
formatted_size(avail) == <<ToString(avail)>>

\* Two independent ifs in place of the if / else if.
annotation_both(has_errors, is_low) ==
    (IF has_errors THEN S_errors ELSE <<>>) \o (IF is_low THEN S_low ELSE <<>>)

\* The annotation appended after the formatted size.
annotation(has_errors, is_low) ==
    IF has_errors THEN S_errors
    ELSE IF is_low THEN S_low
    ELSE <<>>

\* The text the loop body appends for a listed pool.
entry_text(out, name, avail, has_errors, is_low) ==
    (IF out # <<>> THEN <<" ">> ELSE <<>>)
        \o name \o S_colon \o formatted_size(avail) \o annotation(has_errors, is_low)

VARIABLES
    list_output,    \* what `zfs get ...` printed
    status_output,  \* what `zpool status` printed
    pc,             \* the place in main
    pools,          \* main's pools
    statuses,       \* main's statuses
    visited,        \* how many entries the loop has visited
    loc,            \* the locals of the latest pass of the loop body
    output,         \* main's output
    stdout          \* what was written to the standard output

vars == <<list_output, status_output, pc, pools, statuses, visited, loc, output, stdout>>

NoLocals ==
    [name |-> <<>>, meta |-> pool_meta, has_errors |-> FALSE, size |-> UsizeZero,
     divisor |-> 0, is_low |-> FALSE, is_bootpool |-> FALSE, listed |-> FALSE]

\* const auto pools = app::list_pools(); if (pools) ... else ...
ListPools ==
    /\ pc = "list_pools"
    /\ pools' = parse_list(list_output)
    /\ pc' = IF has_pools(pools') THEN "stat_pools" ELSE "unknown"
    /\ UNCHANGED <<list_output, status_output, statuses, visited, loc, output, stdout>>

\* const auto statuses = app::stat_pools();
StatPools ==
    /\ pc = "stat_pools"
    /\ statuses' = parse_status(status_output)
    /\ visited' = 0
    /\ pc' = "loop"
    /\ UNCHANGED <<list_output, status_output, pools, loc, output, stdout>>

\* One pass of the loop body.
LoopBody ==
    /\ pc = "loop"
    /\ visited < Len(pools)
    /\ LET e           == reverse_at(pools, visited + 1)
           name        == e.key
           meta        == e.value
           has_errors  == status_or_true(statuses, name)
           size        == pool_size(meta)
           divisor     == pool_divisor(size)
           is_low      == pool_is_low(meta, size, divisor)
           is_bootpool == pool_is_bootpool(size)
           listed      == pool_is_listed(is_bootpool, has_errors, is_low)
       IN  /\ loc' = [name |-> name, meta |-> meta, has_errors |-> has_errors,
                      size |-> size, divisor |-> divisor, is_low |-> is_low,
                      is_bootpool |-> is_bootpool, listed |-> listed]
           /\ output' = IF listed
                        THEN output \o entry_text(output, name, meta.avail,
                                                  has_errors, is_low)
                        ELSE output
    /\ visited' = visited + 1
    /\ UNCHANGED <<list_output, status_output, pc, pools, statuses, stdout>>

\* output << '\n';
LoopEnd ==
    /\ pc = "loop"
    /\ visited = Len(pools)
    /\ output' = output \o <<"\n">>
    /\ pc' = "write"
    /\ UNCHANGED <<list_output, status_output, pools, statuses, visited, loc, stdout>>

\* output << "Unknown\n";
Unknown ==
    /\ pc = "unknown"
    /\ output' = output \o S_unknown
    /\ pc' = "write"
    /\ UNCHANGED <<list_output, status_output, pools, statuses, visited, loc, stdout>>

\* file::standard::out{} << output; return constant::exit::success;
Write ==
    /\ pc = "write"
    /\ stdout' = output
    /\ pc' = "exit"
    /\ UNCHANGED <<list_output, status_output, pools, statuses, visited, loc, output>>

Next == ListPools \/ StatPools \/ LoopBody \/ LoopEnd \/ Unknown \/ Write

\* The state main starts in, the two command outputs given.
Start(list, status) ==
    /\ list_output = list
    /\ status_output = status
    /\ pc = "list_pools"
    /\ pools = <<>>
    /\ statuses = EmptyStatuses
    /\ visited = 0
    /\ loc = NoLocals
    /\ output = <<>>
    /\ stdout = <<>>

----------------------------------------------------------------------------
(* the command outputs the specifications range over                       *)

N_zroot == <<"z", "r", "o", "o", "t">>

N_tank == <<"t", "a", "n", "k">>

N_boot == <<"b", "o", "o", "t">>

V_332G == <<"3", "5", "6", "5", "1", "5", "3", "3", "2", "0", "9", "6">>

V_2M == <<"2", "0", "0", "0", "0", "0", "0">>

V_2T_avail == <<"1", "0", "9", "9", "5", "1", "1", "6", "2", "7", "7", "7">>

V_2T_used == <<"2", "0", "8", "9", "0", "7", "2", "0", "9", "2", "7", "7", "5">>

V_2T_avail_less == <<"1", "0", "9", "9", "5", "1", "1", "6", "2", "7", "7", "6">>

V_2T_used_more == <<"2", "0", "8", "9", "0", "7", "2", "0", "9", "2", "7", "7", "6">>

V_500G_avail == <<"5", "3", "6", "8", "7", "0", "9", "1", "2", "0", "0">>

V_500G_used == <<"4", "8", "3", "1", "8", "3", "8", "2", "0", "8", "0", "0">>

V_500G_avail_less == <<"5", "3", "6", "8", "7", "0", "9", "1", "1", "9", "9">>

V_500G_used_more == <<"4", "8", "3", "1", "8", "3", "8", "2", "0", "8", "0", "1">>

V_60G == <<"6", "0", "0", "0", "0", "0", "0", "0", "0", "0", "0">>

V_1T_rest == <<"1", "0", "3", "9", "5", "1", "1", "6", "2", "7", "7", "7", "6">>

V_1T_rest_less == <<"1", "0", "3", "9", "5", "1", "1", "6", "2", "7", "7", "7", "5">>

V_max == <<"1", "8", "4", "4", "6", "7", "4", "4", "0", "7", "3", "7", "0", "9",
      "5", "5", "1", "6", "1", "5">>

V_over == <<"1", "8", "4", "4", "6", "7", "4", "4", "0", "7", "3", "7", "0", "9",
      "5", "5", "1", "6", "1", "6">>

V_1 == <<"1">>

V_0 == <<"0">>

V_2G == <<"2", "1", "4", "7", "4", "8", "3", "6", "4", "8">>

V_100M == <<"1", "0", "4", "8", "5", "7", "6", "0", "0">>

V_4G_rest == <<"4", "1", "9", "0", "1", "0", "9", "6", "9", "6">>

V_2560M == <<"2", "6", "8", "4", "3", "5", "4", "5", "6", "0">>

V_2560M_less == <<"2", "6", "8", "4", "3", "5", "4", "5", "5", "9">>


\* One row of `zfs get -Hp -o name,property,value`.
Row(name, property, value) == name \o <<"\t">> \o property \o <<"\t">> \o value \o <<"\n">>

RECURSIVE Concat(_)
Concat(ss) == IF ss = <<>> THEN <<>> ELSE Head(ss) \o Concat(Tail(ss))

\* The texts made of at most max of the pieces, in any order, with repeats.
RECURSIVE Texts(_, _)
Texts(pieces, max) ==
    IF max = 0 THEN {<<>>}
    ELSE LET shorter == Texts(pieces, max - 1)
         IN  shorter \cup {t \o p : t \in shorter, p \in pieces}

T_pool_tank == <<" ", " ", "p", "o", "o", "l", ":", " ", "t", "a", "n", "k", "\n",
      "c", "o", "n", "f", "i", "g", ":", "\n", "\n", "\t", "N", "A", "M",
      "E", " ", " ", " ", "S", "T", "A", "T", "E", " ", " ", "R", "E", "A",
      "D", " ", "W", "R", "I", "T", "E", " ", "C", "K", "S", "U", "M",
      "\n">>

T_pool_zroot == <<"p", "o", "o", "l", ":", " ", "z", "r", "o", "o", "t", "\n",
      "\t", "N", "A", "M", "E", "\t", "S", "T", "A", "T", "E", "\n">>

T_pool_boot == <<" ", " ", "p", "o", "o", "l", ":", " ", "b", "o", "o", "t", "\n">>

T_pool_none == <<" ", " ", "p", "o", "o", "l", ":", " ", "\n">>

T_header == <<"\t", "N", "A", "M", "E", " ", "S", "T", "A", "T", "E", " ", "R",
      "E", "A", "D", " ", "W", "R", "I", "T", "E", " ", "C", "K", "S", "U",
      "M", "\n">>

T_device_ok == <<"\t", " ", " ", "a", "d", "a", "0", " ", " ", "O", "N", "L", "I",
      "N", "E", " ", " ", "0", " ", " ", "0", "\t", "0", "\n">>

T_device_bad == <<"\t", " ", " ", "a", "d", "a", "1", " ", " ", "D", "E", "G", "R",
      "A", "D", "E", "D", " ", " ", "0", " ", "0", " ", "0", "\n">>

T_free == <<"f", "r", "e", "e">>


\* The two rows of one pool.
Pool(name, avail, used) == Row(name, S_available, avail) \o Row(name, S_used, used)

\* How many pieces a text is made of, at most.
MaxListLines == 3
MaxStatusPieces == 4
MaxMainPieces == 2

\* Rows for parse_list: three that are well formed, a blank line, and one row for
\* each way a row can be malformed.
ListPieces ==
    { Row(N_zroot, S_available, V_332G),
      Row(N_zroot, S_used, V_2M),
      Row(N_tank, S_used, V_max),
      <<"\n">>,
      Row(<<" ">> \o N_zroot, S_used, V_2M),
      N_tank \o <<"\t">> \o S_used \o <<"\n">>,
      Row(N_tank, S_used, V_1 \o <<"\t">>),
      Row(N_tank, S_used, V_0),
      Row(N_tank, S_used, V_1 \o <<"x">>),
      Row(N_tank, S_used, V_over),
      Row(N_tank, T_free, V_1),
      Row(<<>>, S_used, V_1),
      Row(N_tank, <<>>, V_1),
      Row(N_tank \o <<"/", "x">>, S_used, V_1) }

\* Pieces of a `zpool status` report.
StatusPieces ==
    { T_pool_tank, T_pool_zroot, T_pool_none, T_header,
      T_device_ok, T_device_bad, <<"\n">> }

\* The report of a pool whose "pool: " line is given, with the device lines given.
Report(pool_line, devices) == pool_line \o T_header \o devices \o <<"\n">>

AllHealthy ==
    Report(T_pool_boot, T_device_ok) \o T_pool_tank \o T_device_ok \o T_device_ok
        \o <<"\n">> \o T_pool_zroot \o T_device_ok

\* tank with a degraded device, boot with an empty table, zroot healthy.
TankDegraded ==
    T_pool_tank \o T_device_ok \o T_device_bad \o <<"\n">>
        \o Report(T_pool_boot, <<>>) \o T_pool_zroot \o T_device_ok \o <<"\n">>

MainStatuses == { <<>>, AllHealthy, TankDegraded }

\* Rows for main: pools at the edges of the classification.
MainPieces ==
    { Row(N_zroot, S_available, V_332G),
      Row(<<" ">> \o N_zroot, S_used, V_2M),
      Row(N_zroot, S_used, V_2M),
      Pool(N_tank, V_2T_avail, V_2T_used),
      Pool(N_tank, V_2T_avail_less, V_2T_used_more),
      Pool(N_tank, V_500G_avail, V_500G_used),
      Pool(N_tank, V_500G_avail_less, V_500G_used_more),
      Pool(N_tank, V_60G, V_1T_rest),
      Pool(N_tank, V_60G, V_1T_rest_less),
      Pool(N_tank, V_max, V_1),
      Pool(N_boot, V_2G, V_2G),
      Pool(N_boot, V_100M, V_4G_rest),
      Pool(N_boot, V_2560M, V_2560M),
      Pool(N_boot, V_2560M, V_2560M_less) }

ListInputs == Texts(ListPieces, MaxListLines)
StatusInputs == Texts(StatusPieces, MaxStatusPieces)
MainInputs == Texts(MainPieces, MaxMainPieces)

\* The program over the pools at the edges, under each of the reports.
Init == \E list \in MainInputs, status \in MainStatuses : Start(list, status)

Spec == Init /\ [][Next]_vars

\* The program over the rows of ListPieces.
InitList == \E list \in ListInputs : Start(list, AllHealthy)

SpecList == InitList /\ [][Next]_vars

\* The program over the reports made of StatusPieces.
InitStatus ==
    \/ \E status \in StatusInputs :
           Start(Pool(N_tank, V_2T_avail, V_2T_used) \o Pool(N_zroot, V_332G, V_2M), status)
    \/ Start(<<>>, <<>>)

SpecStatus == InitStatus /\ [][Next]_vars

----------------------------------------------------------------------------
(* what the rows of the list input are, for the properties below           *)

\* The lines of the list input.
ListLines == split(list_output, "\n")

\* The pool name rule: a letter first, then letters, digits and _ - : space .
NameRule(name) ==
    /\ name # <<>>
    /\ is_alpha(name[1])
    /\ \A i \in 2..Len(name) :
           is_alphanumeric(name[i]) \/ name[i] \in {"_", "-", ":", " ", "."}

\* A non-empty line that is not a row: not exactly three fields, an empty name or
\* property, a value that is no number or is zero, a name against the rule, or a
\* property other than available and used.
Malformed(line) ==
    LET f == split(line, "\t")
    IN  \/ Len(f) # 3
        \/ f[1] = <<>>
        \/ f[2] = <<>>
        \/ ~to_usize(f[3]).has_value
        \/ to_usize(f[3]).value = UsizeZero
        \/ ~NameRule(f[1])
        \/ f[2] \notin {S_available, S_used}

AnyMalformed(lines) == \E i \in 1..Len(lines) : lines[i] # <<>> /\ Malformed(lines[i])

AnyRow(lines) == \E i \in 1..Len(lines) : lines[i] # <<>>

HasMalformedLine == AnyMalformed(ListLines)

\* parse_list has just returned.
Parsed == pc \in {"stat_pools", "unknown"}

\* C1: parse_list is all or nothing.  When a non-empty line of the list input is
\* malformed the map is empty, wherever the line is and whatever rows come before
\* or after it; when no line is malformed and there is a row the map is not empty,
\* blank lines or not.
C1_AllOrNothing ==
    Parsed =>
        LET bad == HasMalformedLine
        IN  /\ bad => pools = <<>>
            /\ (AnyRow(ListLines) /\ ~bad) => pools # <<>>

\* A malformed line between two rows, and the map is empty.
MalformedBetweenRows(lines) ==
    \E i, j, k \in 1..Len(lines) :
        /\ i < j /\ j < k
        /\ lines[i] # <<>> /\ ~Malformed(lines[i])
        /\ lines[j] # <<>> /\ Malformed(lines[j])
        /\ lines[k] # <<>> /\ ~Malformed(lines[k])

C1_Witness == Parsed /\ pools = <<>> /\ MalformedBetweenRows(ListLines)

\* C2: when the list input is empty or has a malformed line, what the program
\* writes is exactly "Unknown\n", whatever the status input is.
C2_UnknownOutput ==
    (pc = "exit" /\ (list_output = <<>> \/ HasMalformedLine)) => stdout = S_unknown

\* A row, then a malformed line, under a status report that is not empty.
RowThenMalformed(lines) ==
    /\ Len(lines) >= 2
    /\ lines[1] # <<>> /\ ~Malformed(lines[1])
    /\ lines[2] # <<>> /\ Malformed(lines[2])

C2_Witness ==
    /\ pc = "exit"
    /\ status_output # <<>>
    /\ RowThenMalformed(ListLines)
    /\ stdout = S_unknown

\* C10: in every map parse_list returns, no entry has avail = 0 or used = 0, also
\* for a pool with a row for one of the two properties only.
C10_NoZeroField ==
    Parsed => \A i \in 1..Len(pools) :
                  pools[i].value.avail # UsizeZero /\ pools[i].value.used # UsizeZero

----------------------------------------------------------------------------
(* the device tables of the status input, for C3                           *)

\* The lines of the status input, tabs and indentation normalised.
StatusLines == split(remove_indentation(replace_tabs(status_output)), "\n")

\* Line h opens a device table: it starts with "NAME STATE" and is not itself a
\* line of a table opened above it (a table runs to the next blank line).
RECURSIVE OpensTable(_, _)
OpensTable(lines, h) ==
    /\ has_front(lines[h], S_name_state)
    /\ ~\E g \in 1..(h - 1) :
           /\ has_front(lines[g], S_name_state)
           /\ \A j \in (g + 1)..h : lines[j] # <<>>
           /\ OpensTable(lines, g)

\* Line j is a line of a table opened above it.
InTable(lines, j) ==
    \E g \in 1..(j - 1) :
        /\ has_front(lines[g], S_name_state)
        /\ \A k \in (g + 1)..j : lines[k] # <<>>
        /\ OpensTable(lines, g)

\* The device lines of the table opened at h: the lines up to the blank line or
\* the end of the input.
DeviceLines(lines, h) ==
    {j \in (h + 1)..Len(lines) : \A k \in (h + 1)..j : lines[k] # <<>>}

\* The "pool: <name>" lines above h that a table has not swallowed.
PoolLines(lines, h) ==
    {q \in 1..(h - 1) : has_front(lines[q], S_pool) /\ ~InTable(lines, q)}

\* The name the table opened at h follows: that of the nearest "pool: " line above
\* it, unless another table lies between the two; <<>> when there is none.
TableName(lines, h) ==
    LET ps == PoolLines(lines, h)
    IN  IF ps = {} THEN <<>>
        ELSE LET q == CHOOSE q \in ps : \A r \in ps : r <= q
             IN  IF \E g \in (q + 1)..(h - 1) : OpensTable(lines, g)
                 THEN <<>>
                 ELSE SubSeq(lines[q], Len(S_pool) + 1, Len(lines[q]))

\* The table opened at h has a device line and every one ends "ONLINE 0 0 0".
TableHealthy(lines, h) ==
    LET ds == DeviceLines(lines, h)
    IN  ds # {} /\ \A j \in ds : has_back(lines[j], S_online)

\* The tables that follow a "pool: <name>" line with a name.
NamedTables(lines) ==
    {h \in 1..Len(lines) : OpensTable(lines, h) /\ TableName(lines, h) # <<>>}

\* The value recorded for the name of table h is right for table h.
RecordedFor(lines, h) ==
    LET name == TableName(lines, h)
    IN  name \in DOMAIN statuses /\ (statuses[name] = ~TableHealthy(lines, h))

\* parse_status has just returned.
StatusParsed == pc = "loop" /\ visited = 0

\* C3 as stated: for every device table that follows a "pool: <name>" line with a
\* non-empty name, the value recorded for the name is has_errors = false exactly
\* when the table has a device line and every device line ends "ONLINE 0 0 0".
C3_EveryTable ==
    StatusParsed =>
        LET lines == StatusLines
        IN  \A h \in NamedTables(lines) : RecordedFor(lines, h)

\* C3, amended: the same for the first table of each name; a later table under a
\* name already recorded leaves the recorded value as it is.
C3_FirstTable ==
    StatusParsed =>
        LET lines  == StatusLines
            tables == NamedTables(lines)
        IN  \A h \in tables :
                (\A g \in tables : g < h => TableName(lines, g) # TableName(lines, h))
                    => RecordedFor(lines, h)

\* Two tables: one with only healthy device lines, recorded as without errors, and
\* one with no device line at all, recorded as with errors.
HealthyAndEmptyTable(lines) ==
    \E h, g \in NamedTables(lines) :
        /\ TableName(lines, h) # TableName(lines, g)
        /\ TableHealthy(lines, h) /\ statuses[TableName(lines, h)] = FALSE
        /\ DeviceLines(lines, g) = {} /\ statuses[TableName(lines, g)] = TRUE

C3_Witness == StatusParsed /\ HealthyAndEmptyTable(StatusLines)

----------------------------------------------------------------------------
(* the classification, worked out apart from main, for C4 to C9            *)

Wide(x) == Widen(x, WideLimbs)

\* x <= y
AtMost(x, y) == ~Less(y, x)

\* 2^40 and 5 * 2^30 bytes.
OneTiB == <<0, 0, 256, 0>>
FiveGiB == <<0, 16384, 1, 0>>

\* avail + used as a usize: the sum of the two, less 2^64 when it does not fit.
SizeOf(meta) == Widen(Add(Wide(meta.avail), Wide(meta.used)), UsizeLimbs)

DivisorOf(meta) == IF AtMost(OneTiB, SizeOf(meta)) THEN 20 ELSE 10

\* avail < size / divisor, integer division: (avail + 1) * divisor <= size.
LowOf(meta) ==
    AtMost(MulAdd(Add(Wide(meta.avail), Wide(<<1, 0, 0, 0>>)), DivisorOf(meta), 0),
           Wide(SizeOf(meta)))

TinyOf(meta) == Less(SizeOf(meta), FiveGiB)

ErrorsOf(name) == IF name \in DOMAIN statuses THEN statuses[name] ELSE TRUE

\* "<name>: <formatted avail>"
EntryOf(e) == e.key \o <<":", " ">> \o formatted_size(e.value.avail)

\* s holds t.
Contains(s, t) ==
    \E i \in 1..(Len(s) - Len(t) + 1) : SubSeq(s, i, i + Len(t) - 1) = t

PoolsOf == {pools[i] : i \in 1..Len(pools)}

\* main has written the summary line of a map with pools.
Summarised == pc = "exit" /\ pools # <<>>

\* C4: a pool with no entry in the status map is in the output, with " (ERRORS)",
\* whatever its size and free space.
C4_MissingStatus ==
    Summarised =>
        \A e \in PoolsOf :
            e.key \notin DOMAIN statuses
                => Contains(stdout, EntryOf(e) \o S_errors)

\* A tiny pool that is not low, with no status entry, is in the output with
\* " (ERRORS)".
C4_Witness ==
    /\ Summarised
    /\ \E e \in PoolsOf :
           /\ e.key \notin DOMAIN statuses
           /\ TinyOf(e.value) /\ ~LowOf(e.value)
           /\ Contains(stdout, EntryOf(e) \o S_errors)

\* C5: a pool is left out of the summary line exactly when its size is below
\* 5 GiB and it has neither errors nor low space.
C5_LeftOut ==
    Summarised =>
        \A e \in PoolsOf :
            ~Contains(stdout, EntryOf(e))
                <=> (TinyOf(e.value) /\ ~ErrorsOf(e.key) /\ ~LowOf(e.value))

\* A tiny healthy pool left out beside a pool that is listed.
C5_Witness ==
    /\ Summarised
    /\ \E e, f \in PoolsOf :
           /\ TinyOf(e.value) /\ ~ErrorsOf(e.key) /\ ~LowOf(e.value)
           /\ ~Contains(stdout, EntryOf(e))
           /\ Contains(stdout, EntryOf(f))

\* The loop body has just run.
Classified == pc = "loop" /\ visited > 0

Usize(digits) == to_usize(digits).value

\* C6: is_low = (avail < size / divisor), size = avail + used, integer division,
\* divisor = 20 when size >= 1 TiB and 10 otherwise; of a 2 TiB pool and of a
\* 500 GiB pool, avail at the threshold is not low and one byte less is low.
C6_LowSpace ==
    Classified =>
        /\ loc.size = SizeOf(loc.meta)
        /\ loc.divisor = DivisorOf(loc.meta)
        /\ loc.is_low <=> LowOf(loc.meta)
        /\ loc.meta = [avail |-> Usize(V_2T_avail), used |-> Usize(V_2T_used)]
               => ~loc.is_low
        /\ loc.meta = [avail |-> Usize(V_2T_avail_less), used |-> Usize(V_2T_used_more)]
               => loc.is_low
        /\ loc.meta = [avail |-> Usize(V_500G_avail), used |-> Usize(V_500G_used)]
               => ~loc.is_low
        /\ loc.meta = [avail |-> Usize(V_500G_avail_less), used |-> Usize(V_500G_used_more)]
               => loc.is_low

\* The 2 TiB pool at its threshold: 5% of the size, not low.
C6_Witness ==
    /\ Classified
    /\ loc.meta = [avail |-> Usize(V_2T_avail), used |-> Usize(V_2T_used)]
    /\ loc.size = <<0, 0, 512, 0>>
    /\ loc.divisor = 20
    /\ ~loc.is_low

\* C7: an entry carries " (ERRORS)" when has_errors, " (low)" only when is_low and
\* not has_errors, nothing when neither; never both.
C7_OneAnnotation ==
    /\ (Classified /\ loc.listed) =>
           LET e == [key |-> loc.name, value |-> loc.meta]
           IN  has_back(output,
                        EntryOf(e) \o (CASE ErrorsOf(loc.name) -> S_errors
                                         [] ~ErrorsOf(loc.name) /\ LowOf(loc.meta) -> S_low
                                         [] OTHER -> <<>>))
    /\ pc = "exit" =>
           ~Contains(stdout, S_errors \o S_low) /\ ~Contains(stdout, S_low \o S_errors)

\* A pool with errors that is also low on space: " (ERRORS)" alone.
C7_Witness ==
    /\ Classified
    /\ loc.listed /\ loc.has_errors /\ loc.is_low
    /\ has_back(output, S_errors)
    /\ ~Contains(output, S_low)

\* The list input of C8 as written, the second line beginning with a space, and
\* the same two rows without the space.
C8_ListAsWritten ==
    Row(N_zroot, S_available, V_332G) \o Row(<<" ">> \o N_zroot, S_used, V_2M)

C8_ListTwoRows == Row(N_zroot, S_available, V_332G) \o Row(N_zroot, S_used, V_2M)

\* The status reports whose table for zroot has healthy device lines only.
C8_Statuses == {AllHealthy, TankDegraded}

\* "zroot: <formatted avail>\n"
C8_Line == N_zroot \o <<":", " ">> \o formatted_size(Usize(V_332G)) \o <<"\n">>

\* C8 as stated: with the list input as written and zroot healthy, the output is
\* the single entry "zroot: <formatted avail>\n".
C8_AsStated ==
    (pc = "exit" /\ list_output = C8_ListAsWritten /\ status_output \in C8_Statuses)
        => stdout = C8_Line

\* C8, amended: with the list input as written the name " zroot" of the second
\* line is against the pool name rule and the output is "Unknown\n"; with the two
\* rows and no leading space the output is the single entry, with no annotation.
C8_EndToEnd ==
    (pc = "exit" /\ status_output \in C8_Statuses) =>
        /\ list_output = C8_ListAsWritten => stdout = S_unknown
        /\ list_output = C8_ListTwoRows => stdout = C8_Line

\* The run over the list input as written.
C8_Witness ==
    /\ pc = "exit"
    /\ list_output = C8_ListAsWritten
    /\ status_output = AllHealthy
    /\ stdout = S_unknown

\* The pools the summary line lists, and the annotation of each.
ListedOf(e) == ~(TinyOf(e.value) /\ ~ErrorsOf(e.key) /\ ~LowOf(e.value))

AnnotatedOf(e) ==
    EntryOf(e) \o (IF ErrorsOf(e.key) THEN S_errors
                   ELSE IF LowOf(e.value) THEN S_low ELSE <<>>)

\* The entries of q, one space between two.
RECURSIVE Joined(_, _)
Joined(q, i) ==
    IF i > Len(q) THEN <<>>
    ELSE (IF i > 1 THEN <<" ">> ELSE <<>>) \o AnnotatedOf(q[i]) \o Joined(q, i + 1)

\* C9: the summary line is the entries of the listed pools in descending order of
\* name, whatever the order of the rows of the list input, one space between two
\* entries and one line break at the end.
C9_Descending ==
    Summarised =>
        LET listed == {e \in PoolsOf : ListedOf(e)}
        IN  \E q \in [1..Cardinality(listed) -> listed] :
                /\ \A i, j \in DOMAIN q : i < j => StrLess(q[j].key, q[i].key)
                /\ stdout = Joined(q, 1) \o <<"\n">>

\* The rows of tank come before the row of zroot, the line begins with zroot and
\* has both.
C9_Witness ==
    /\ Summarised
    /\ has_front(list_output, N_tank)
    /\ has_front(stdout, N_zroot)
    /\ Contains(stdout, <<" ">> \o N_tank \o <<":", " ">>)
====
